---- MODULE Spec2Model ----
(***************************************************************************)
(* Model of the Flowershow publish reconciliation engine (Publisher) and   *)
(* the path-policy helpers it uses.                                        *)
(*                                                                         *)
(* Strings that the code inspects character by character (paths, rootDir,  *)
(* exclusion patterns) are sequences of one-character strings.  One engine *)
(* instance is shared by the callers; a caller's operation is suspended at *)
(* every remote call (await) and resumed by the matching "...Returns"      *)
(* action, which runs the code up to the next remote call.  Remote         *)
(* responses are inputs of the resuming action.                            *)
(***************************************************************************)
EXTENDS Naturals, Integers, Sequences, FiniteSets, TLC

VARIABLES
    settings,     \* IFlowershowSettings of the engine (rootDir, excludePatterns)
    siteId,       \* Publisher.siteId   (cache, Null until resolved)
    username,     \* Publisher.username (cache, Null until resolved)
    proc,         \* per caller: position, arguments, locals, observed events, outcome
    sitesCreated, \* history: number of createSite calls that returned a site
    eval,         \* a call of a pure helper: its arguments and its result
    modified      \* paths of the vault files whose bytes changed since start

vars == <<settings, siteId, username, proc, sitesCreated, eval, modified>>

----------------------------------------------------------------------------
(* Bounds *)

MaxPub == 2       \* longest filesToPublish list a caller passes
MaxDel == 2       \* longest filesToDelete list a caller passes
MaxPathLen == 3   \* longest path a helper is called with
MaxRootLen == 2   \* longest rootDir a helper is called with
MaxPatterns == 2  \* longest excludePatterns list a helper is called with
MaxEdits == 1     \* number of vault files modified while the engine runs

Callers  == {"c1", "c2"}
MainCaller == "c1"

----------------------------------------------------------------------------
(* Strings *)

Null   == "null"
Absent == <<>>                      \* an optional argument that is not given
Some(x) == <<x>>                    \* an optional argument that is given

S1(a) == <<a>>
S3(a, b, c) == <<a, b, c>>
S4(a, b, c, d) == <<a, b, c, d>>
S5(a, b, c, d, e) == <<a, b, c, d, e>>

EmptyStr == <<>>

StartsWith(s, pre) ==
    /\ Len(s) >= Len(pre)
    /\ SubSeq(s, 1, Len(pre)) = pre

\* s.replace(/^\/+/, "")
RECURSIVE StripLeadingSlashes(_)
StripLeadingSlashes(s) ==
    IF s # <<>> /\ Head(s) = "/" THEN StripLeadingSlashes(Tail(s)) ELSE s

\* the /\/+$/ alternative of s.replace(/^\/+|\/+$/g, "")
RECURSIVE StripTrailingSlashes(_)
StripTrailingSlashes(s) ==
    IF s # <<>> /\ s[Len(s)] = "/"
    THEN StripTrailingSlashes(SubSeq(s, 1, Len(s) - 1))
    ELSE s

\* s.replace(/^\/+|\/+$/g, "")
TrimSlashes(s) == StripTrailingSlashes(StripLeadingSlashes(s))

\* some substring of s equals lit
Contains(s, lit) ==
    \E i \in 1..(Len(s) + 1) :
        /\ i + Len(lit) - 1 <= Len(s)
        /\ SubSeq(s, i, i + Len(lit) - 1) = lit

----------------------------------------------------------------------------
(* Path policy: utils/publisherHelpers.ts *)

\* variant: the root is removed as a plain prefix, not as a whole segment
normalizePathPrefixOnly(path, rootDir) ==
    LET normalizedPath == StripLeadingSlashes(path) IN
    IF rootDir # EmptyStr
    THEN LET rootDirNormalized == TrimSlashes(rootDir) IN
         IF StartsWith(normalizedPath, rootDirNormalized \o <<"/">>)
         THEN SubSeq(normalizedPath, Len(rootDirNormalized) + 2, Len(normalizedPath))
         ELSE IF StartsWith(normalizedPath, rootDirNormalized)
              THEN SubSeq(normalizedPath, Len(rootDirNormalized) + 1, Len(normalizedPath))
              ELSE normalizedPath
    ELSE normalizedPath

normalizePath(path, rootDir) ==
    LET normalizedPath == StripLeadingSlashes(path) IN
    IF rootDir # EmptyStr
    THEN LET rootDirNormalized == TrimSlashes(rootDir) IN
         IF StartsWith(normalizedPath, rootDirNormalized \o <<"/">>)
         THEN SubSeq(normalizedPath, Len(rootDirNormalized) + 2, Len(normalizedPath))
         ELSE IF normalizedPath = rootDirNormalized
              THEN EmptyStr
              ELSE normalizedPath
    ELSE normalizedPath

\* variant: the root is matched as a plain prefix, not as a whole segment
isWithinRootDirPrefixOnly(path, rootDir) ==
    IF rootDir = EmptyStr
    THEN TRUE
    ELSE StartsWith(StripLeadingSlashes(path), TrimSlashes(rootDir))

isWithinRootDir(path, rootDir) ==
    IF rootDir = EmptyStr
    THEN TRUE
    ELSE LET rootDirNormalized == TrimSlashes(rootDir)
             pathNormalized == StripLeadingSlashes(path)
         IN  \/ StartsWith(pathNormalized, rootDirNormalized \o <<"/">>)
             \/ pathNormalized = rootDirNormalized

\* A pattern string is modelled by what new RegExp(pattern) makes of it:
\* valid = FALSE when compilation throws; otherwise the regex is the literal
\* lit, anchored at the start of the input ("^lit") or not ("lit").
Pattern(valid, anchored, lit) == [valid |-> valid, anchored |-> anchored, lit |-> lit]

\* the callback of excludePatterns.some(...): try { new RegExp(p).test(path) } catch { false }
PatternMatches(pattern, path) ==
    IF ~pattern.valid
    THEN FALSE
    ELSE IF pattern.anchored
         THEN StartsWith(path, pattern.lit)
         ELSE Contains(path, pattern.lit)

\* variant: the try/catch encloses the whole some(...), so that an invalid
\* pattern ends the search with false
RECURSIVE matchesExcludePatternsStopAtInvalid(_, _)
matchesExcludePatternsStopAtInvalid(path, excludePatterns) ==
    IF excludePatterns = Absent \/ Len(excludePatterns[1]) = 0
    THEN FALSE
    ELSE LET pattern == Head(excludePatterns[1]) IN
         IF ~pattern.valid
         THEN FALSE
         ELSE \/ PatternMatches(pattern, path)
              \/ matchesExcludePatternsStopAtInvalid(path, Some(Tail(excludePatterns[1])))

\* excludePatterns is Absent (undefined) or Some(list of patterns)
matchesExcludePatterns(path, excludePatterns) ==
    IF excludePatterns = Absent \/ Len(excludePatterns[1]) = 0
    THEN FALSE
    ELSE \E i \in 1..Len(excludePatterns[1]) : PatternMatches(excludePatterns[1][i], path)

isPlainTextExtension(ext) ==
    ext \in {"md", "mdx", "txt", "json", "yaml", "yml", "css", "js", "ts",
             "html", "xml", "csv", "tsv"}

\* A file's metadata-cache entry is summarised by fm:
\*   "nocache"  getCache(path) returns null
\*   "nofm"     a cache entry without front-matter
\*   "nokey"    front-matter without a publish key
\*   "false"    publish: false (boolean)
\*   "true"     publish: true
\*   "str"      publish: "false" (a string, not the boolean)
\* variant: the extension is not looked at
hasPublishFalseAnyExtension(file) == file.fm = "false"

hasPublishFalse(file) ==
    IF file.extension # "md" /\ file.extension # "mdx"
    THEN FALSE
    ELSE file.fm = "false"

\* variant: the patterns are tested against the rootDir-stripped path
shouldSkipFileStrippedPath(file, rootDir, excludePatterns) ==
    \/ ~isWithinRootDir(file.path, rootDir)
    \/ matchesExcludePatterns(normalizePath(file.path, rootDir), excludePatterns)
    \/ hasPublishFalse(file)

shouldSkipFile(file, rootDir, excludePatterns) ==
    \/ ~isWithinRootDir(file.path, rootDir)
    \/ matchesExcludePatterns(file.path, excludePatterns)
    \/ hasPublishFalse(file)

\* variant: compares the flag with the string "false" instead of the boolean
validatePublishFrontmatterString(fm) == fm # "str"

\* validatePublishFrontmatter(frontMatter), called with a front-matter object
validatePublishFrontmatter(fm) == fm # "false"

\* "fs_pat_"
TokenPrefix == <<"f", "s", "_", "p", "a", "t", "_">>

\* variant: a token must have something after the prefix
validateSettingsLongerThanPrefix(st) ==
    IF st.flowershowToken = EmptyStr
    THEN FALSE
    ELSE IF st.siteName = EmptyStr
    THEN FALSE
    ELSE IF ~(StartsWith(st.flowershowToken, TokenPrefix)
              /\ Len(st.flowershowToken) > Len(TokenPrefix))
    THEN FALSE
    ELSE TRUE

\* validateSettings(settings)
validateSettings(st) ==
    IF st.flowershowToken = EmptyStr
    THEN FALSE
    ELSE IF st.siteName = EmptyStr
    THEN FALSE
    ELSE IF ~StartsWith(st.flowershowToken, TokenPrefix)
    THEN FALSE
    ELSE TRUE

----------------------------------------------------------------------------
(* The vault *)

\* a TFile with what the metadata cache and the vault hold for it: fm and
\* embeds (the cache entry), content (the bytes), size (stat.size)
TFile(path, extension, fm, embeds, content) ==
    [path |-> path, extension |-> extension, fm |-> fm,
     embeds |-> embeds, content |-> content, size |-> Len(content)]

PathBA  == S3("b", "/", "a")
PathBI  == S3("b", "/", "i")
PathBN  == S3("b", "/", "n")
PathA   == S1("a")
PathBDP == S5("b", "/", "d", "/", "p")
PathZ   == S1("z")

\* a note inside rootDir "b" that embeds an image twice, itself, a note
\* marked publish: false and a link that resolves to nothing
NoteA   == TFile(PathBA, "md", "true", <<PathBI, PathBI, PathBA, PathBN, PathZ>>, <<"A">>)
Image   == TFile(PathBI, "png", "nocache", <<>>, <<"I", "I">>)
NoteN   == TFile(PathBN, "md", "false", <<PathBI>>, <<"N">>)
Outside == TFile(PathA, "md", "nofm", <<>>, <<"O">>)
Draft   == TFile(PathBDP, "md", "nokey", <<>>, <<>>)

\* app.vault.getFiles()
Vault == <<NoteA, Image, NoteN, Outside, Draft>>

VaultFiles == {Vault[i] : i \in 1..Len(Vault)}

RootB == S1("b")

ExcludePatterns ==
    Some(<<Pattern(FALSE, FALSE, S1("[")), Pattern(TRUE, TRUE, S4("b", "/", "d", "/"))>>)

SettingsChoices == {[rootDir |-> r, excludePatterns |-> ExcludePatterns] : r \in {RootB}}

\* paths a caller asks to delete, and the remote-only path of the site
PathBO == S3("b", "/", "o")
PathO  == S1("o")
DelPaths == {PathBO, PathO}

\* the non-skipped files of the vault, in vault order
NonSkipped(st) ==
    SelectSeq(Vault, LAMBDA f : ~shouldSkipFile(f, st.rootDir, st.excludePatterns))

\* metadataCache.getFirstLinkpathDest(link, ...): the vault file a link resolves to
getFirstLinkpathDest(link) ==
    IF \E f \in VaultFiles : f.path = link
    THEN Some(CHOOSE f \in VaultFiles : f.path = link)
    ELSE Absent

\* calculateTextSha / calculateFileSha: the digest of a file's bytes
Sha(content) == <<"sha", content>>

\* vault.cachedRead(file) / vault.readBinary(file): the bytes the vault holds
\* for the file now
cachedRead(file) ==
    IF file.path \in modified THEN Append(file.content, "m") ELSE file.content

\* FileMetadata of one file, from its stat and a read of its bytes
FileMetadata(file, rootDir) ==
    [path |-> normalizePath(file.path, rootDir), size |-> Len(cachedRead(file)),
     sha |-> Sha(cachedRead(file))]

----------------------------------------------------------------------------
(* Sequences *)

SeqsUpTo(S, n) == UNION {[1..k -> S] : k \in 0..n}

MapSeq(s, Op(_)) == [i \in 1..Len(s) |-> Op(s[i])]

\* the subsequences of s (elements kept in order)
RECURSIVE SubSeqsOf(_)
SubSeqsOf(s) ==
    IF s = <<>>
    THEN {<<>>}
    ELSE LET rest == SubSeqsOf(Tail(s)) IN
         rest \cup {<<Head(s)>> \o t : t \in rest}

----------------------------------------------------------------------------
(* Caller state *)

\* An event, a response and an outcome are tuples led by their tag, so that
\* two of them with different tags are told apart by the tag alone.
Event(ev, arg) == <<ev, arg>>
EvOf(e) == e[1]
ArgOf(e) == e[2]

NoRet == <<"none", Null>>
Kind(r) == r.ret[1]
Val(r) == r.ret[2]

\* getPublishStatus: the four result lists, empty
EmptyStatus ==
    [unchangedFiles |-> <<>>, changedFiles |-> <<>>, deletedFiles |-> <<>>, newFiles |-> <<>>]

\* cmd is the host command the operation runs under and status the publish
\* status that command obtained
IdleProc ==
    [pc |-> "idle", op |-> "none", ctx |-> "none", note |-> Absent,
     pub |-> Absent, del |-> Absent, sid |-> Null, dirs |-> <<>>,
     trace |-> <<>>, ret |-> NoRet, cmd |-> "none", status |-> EmptyStatus]

\* new FlowershowError(message); paths are the paths the message names
FlowershowError(msg, paths) == [name |-> "FlowershowError", msg |-> msg, paths |-> paths]

\* the Error a FlowershowClient call throws on a non-2xx response
RemoteError(call) == [name |-> "Error", msg |-> call, paths |-> <<>>]

Log(r, e) == [r EXCEPT !.trace = Append(@, e)]

\* issue a remote call and suspend until its response arrives
Await(r, call, arg) == [Log(r, Event(call, arg)) EXCEPT !.pc = call]

\* the response of the remote call the caller was suspended at (val is what
\* the client returns; a non-2xx response makes the client throw)
Received(r, ok, val) ==
    Log(r, Event("response", <<r.pc, ok, val>>))

\* the operation resolves with val
Return(r, val) == [r EXCEPT !.pc = "done", !.ret = <<"ok", val>>]

\* the operation rejects with err (thrown outside publishBatch's try block)
Throw(r, err) == [r EXCEPT !.pc = "done", !.ret = <<"error", err>>]

\* variant: the catch block rethrows without signalling finish
CatchWithoutFinish(r, err) == Throw(r, err)

\* publishBatch: catch (error) { this.publishStatusBar.finish(0); throw error; }
Catch(r, err) == Throw(Log(r, Event("finish", 0)), err)

\* an exception raised while the caller is at call site r.ctx
InTry(r) == r.pc \in {"createSite", "deleteFiles", "publishFiles", "uploadToR2"}
            \/ r.ctx \in {"ensureSite", "final"}

\* variant: the engine replaces the client's error by one of its own
RaiseReplaced(r, err) ==
    IF InTry(r)
    THEN Catch(r, FlowershowError("Could not resolve the site", <<>>))
    ELSE Throw(r, FlowershowError("Could not resolve the site", <<>>))

\* variant: a failed lookup at the start of getPublishStatus fails open
RaiseFailOpenInStatus(r, err) ==
    IF r.ctx = "status"
    THEN Return(r, [EmptyStatus EXCEPT !.newFiles = NonSkipped(settings)])
    ELSE IF InTry(r) THEN Catch(r, err) ELSE Throw(r, err)

Raise(r, err) == IF InTry(r) THEN Catch(r, err) ELSE Throw(r, err)

\* opts.x?.length is truthy
HasLength(opt) == opt # Absent /\ Len(opt[1]) > 0

\* opts.x?.length (undefined when the list is absent)
OptLength(opt) == IF opt = Absent THEN Absent ELSE Some(Len(opt[1]))

\* opts.x?.length || 0
LengthOr0(opt) == IF opt = Absent THEN 0 ELSE Len(opt[1])

Items(opt) == IF opt = Absent THEN <<>> ELSE opt[1]

----------------------------------------------------------------------------
(* Publisher: the code between two remote calls *)

SiteIds == {"s1", "s2"}

SiteUrl(id) == <<"url", id>>

\* getUsername() followed by client.getSiteByName(username, siteName)
getSiteByName(r, uname) ==
    IF uname # Null
    THEN Await(r, "getSiteByName", uname)
    ELSE Await(r, "getUserInfo", Null)

\* publishBatch: this.publishStatusBar.finish(2000), then the site lookup for the URL
FinishAndGetUrl(r) ==
    getSiteByName(Log([r EXCEPT !.ctx = "final"], Event("finish", 2000)), username)

\* variant: a directive that names no requested file is an error
UploadFilesUnmatchedFails(r) ==
    IF r.dirs = <<>>
    THEN FinishAndGetUrl(r)
    ELSE LET uploadInfo == Head(r.dirs)
             filesToProcess == Items(r.pub)
             found == {i \in 1..Len(filesToProcess) :
                          normalizePath(filesToProcess[i].path, settings.rootDir) = uploadInfo.path}
         IN  IF found = {}
             THEN Catch(r, FlowershowError("No file for upload directive", <<uploadInfo.path>>))
             ELSE LET file == filesToProcess[CHOOSE i \in found : \A j \in found : i <= j] IN
                  Await(r, "uploadToR2",
                        [uploadUrl |-> uploadInfo.uploadUrl, path |-> uploadInfo.path,
                         content |-> cachedRead(file)])

\* publishBatch: the upload loop, up to the next PUT
RECURSIVE UploadFiles(_)
UploadFiles(r) ==
    IF r.dirs = <<>>
    THEN FinishAndGetUrl(r)
    ELSE LET uploadInfo == Head(r.dirs)
             filesToProcess == Items(r.pub)
             found == {i \in 1..Len(filesToProcess) :
                          normalizePath(filesToProcess[i].path, settings.rootDir) = uploadInfo.path}
         IN  IF found = {}
             THEN UploadFiles([r EXCEPT !.dirs = Tail(@)])
             ELSE LET file == filesToProcess[CHOOSE i \in found : \A j \in found : i <= j] IN
                  Await(r, "uploadToR2",
                        [uploadUrl |-> uploadInfo.uploadUrl, path |-> uploadInfo.path,
                         content |-> cachedRead(file)])

\* publishBatch: "Handle file publishing"
HandlePublishing(r) ==
    IF HasLength(r.pub)
    THEN Await(r, "publishFiles",
               [siteId |-> r.sid,
                files |-> MapSeq(Items(r.pub), LAMBDA f : FileMetadata(f, settings.rootDir))])
    ELSE FinishAndGetUrl(r)

\* variant: the paths are sent as given (the behaviour fixed in 4.0.10)
pathsToDeleteAsGiven(del, rootDir) == Items(del)

\* publishBatch: the paths sent in the delete request
normalizedPathsToDelete(del, rootDir) ==
    MapSeq(Items(del), LAMBDA path : normalizePath(path, rootDir))

\* variant: the delete response is not inspected (Publisher.ts, lines 187-191,
\* before the check was added)
IgnoreNotFound(r, notFound) == HandlePublishing(Log(r, Event("incrementDelete", Null)))

\* publishBatch: after deleteFiles returned, "Check if any files were not found"
CheckNotFound(r, notFound) ==
    IF Len(notFound) > 0
    THEN Catch(r, FlowershowError("Failed to delete. Files not found on server.", notFound))
    ELSE HandlePublishing(Log(r, Event("incrementDelete", Null)))

\* publishBatch: "Handle file deletions first if any"
HandleDeletions(r) ==
    IF HasLength(r.del)
    THEN Await(r, "deleteFiles",
               [siteId |-> r.sid, paths |-> normalizedPathsToDelete(r.del, settings.rootDir)])
    ELSE HandlePublishing(r)

\* variant: without a cached id the site is created without looking it up
ensureSiteWithoutLookup(r) ==
    IF siteId # Null
    THEN HandleDeletions([r EXCEPT !.sid = siteId])
    ELSE Await([r EXCEPT !.ctx = "ensureSite"], "createSite", Null)

\* ensureSite, through getSiteId, up to the first remote call
ensureSite(r) ==
    IF siteId # Null
    THEN HandleDeletions([r EXCEPT !.sid = siteId])
    ELSE getSiteByName([r EXCEPT !.ctx = "ensureSite"], username)

\* variant: only absent lists are rejected, empty ones are not
NoFilesProvidedAbsentOnly(pub, del) == pub = Absent /\ del = Absent

\* publishBatch: the guard that rejects an empty request
NoFilesProvided(pub, del) == ~HasLength(pub) /\ ~HasLength(del)

\* publishBatch(opts), up to the first remote call
publishBatch(r, pub, del) ==
    LET opts == [r EXCEPT !.pub = pub, !.del = del] IN
    IF NoFilesProvided(pub, del)
    THEN Throw(opts, FlowershowError("No files to delete or publish provided", <<>>))
    ELSE ensureSite(Log(opts, Event("start", [publishTotal |-> OptLength(pub),
                                              deleteTotal |-> OptLength(del)])))

\* publishSingleNoteWithEmbeds: the Map of unique embed targets, in insertion order
RECURSIVE uniqueEmbeds(_, _)
uniqueEmbeds(embeds, acc) ==
    IF embeds = <<>>
    THEN acc
    ELSE LET embedTFile == getFirstLinkpathDest(Head(embeds)) IN
         IF embedTFile # Absent
            /\ ~\E i \in 1..Len(acc) : acc[i].path = embedTFile[1].path
         THEN uniqueEmbeds(Tail(embeds), Append(acc, embedTFile[1]))
         ELSE uniqueEmbeds(Tail(embeds), acc)

\* publishSingleNoteWithEmbeds(file, withEmbeds), up to the first remote call
publishSingleNoteWithEmbeds(r0, file, withEmbeds) ==
    LET r == [r0 EXCEPT !.note = Some(file)] IN
    IF file.fm = "nocache"
    THEN Throw(r, FlowershowError("Note file not found!", <<file.path>>))
    ELSE IF file.fm # "nofm" /\ ~validatePublishFrontmatter(file.fm)
    THEN Throw(r, FlowershowError("Cannot publish note with publish: false", <<>>))
    ELSE LET filesToPublish ==
                 IF withEmbeds
                 THEN <<file>> \o uniqueEmbeds(file.embeds, <<>>)
                 ELSE <<file>>
         IN  publishBatch(r, Some(filesToPublish), Absent)

\* getPublishStatus: "Categorize files"; thrown when a list of the response
\* is missing and the loop reads it
RECURSIVE CategorizeFiles(_, _, _, _)
CategorizeFiles(localFiles, syncResult, st, acc) ==
    IF localFiles = <<>> \/ acc.thrown
    THEN acc
    ELSE LET file == Head(localFiles)
             rest == Tail(localFiles)
             normalizedPath == normalizePath(file.path, st.rootDir)
         IN  IF shouldSkipFile(file, st.rootDir, st.excludePatterns)
             THEN CategorizeFiles(rest, syncResult, st, acc)
             ELSE IF syncResult.unchanged = Absent
             THEN [acc EXCEPT !.thrown = TRUE]
             ELSE IF normalizedPath \in syncResult.unchanged[1]
             THEN CategorizeFiles(rest, syncResult, st,
                                  [acc EXCEPT !.unchangedFiles = Append(@, file)])
             ELSE IF syncResult.toUpdate = Absent
             THEN [acc EXCEPT !.thrown = TRUE]
             ELSE IF normalizedPath \in syncResult.toUpdate[1]
             THEN CategorizeFiles(rest, syncResult, st,
                                  [acc EXCEPT !.changedFiles = Append(@, file)])
             ELSE IF syncResult.toUpload = Absent
             THEN [acc EXCEPT !.thrown = TRUE]
             ELSE IF normalizedPath \in syncResult.toUpload[1]
             THEN CategorizeFiles(rest, syncResult, st,
                                  [acc EXCEPT !.newFiles = Append(@, file)])
             ELSE CategorizeFiles(rest, syncResult, st, acc)

\* variant: the catch block leaves the lists as they are
TreatNoneAsNew(status, st) == status

\* getPublishStatus: the catch block, "On error, treat all files as new"
TreatAllAsNew(status, st) ==
    [status EXCEPT !.newFiles = @ \o NonSkipped(st)]

\* variant: the remote-only paths are not copied into the result
StatusFromSyncWithoutDeleted(syncResult, st) ==
    LET acc == CategorizeFiles(Vault, syncResult, st,
                               [unchangedFiles |-> <<>>, changedFiles |-> <<>>,
                                newFiles |-> <<>>, thrown |-> FALSE])
        lists == [unchangedFiles |-> acc.unchangedFiles, changedFiles |-> acc.changedFiles,
                  deletedFiles |-> <<>>, newFiles |-> acc.newFiles]
    IN  IF acc.thrown \/ syncResult.deleted = Absent
        THEN TreatAllAsNew(lists, st)
        ELSE lists

\* getPublishStatus: the try block after syncFiles returned, and its catch
StatusFromSync(syncResult, st) ==
    LET acc == CategorizeFiles(Vault, syncResult, st,
                               [unchangedFiles |-> <<>>, changedFiles |-> <<>>,
                                newFiles |-> <<>>, thrown |-> FALSE])
        lists == [unchangedFiles |-> acc.unchangedFiles, changedFiles |-> acc.changedFiles,
                  deletedFiles |-> <<>>, newFiles |-> acc.newFiles]
    IN  IF acc.thrown \/ syncResult.deleted = Absent
        THEN TreatAllAsNew(lists, st)
        ELSE [lists EXCEPT !.deletedFiles = syncResult.deleted[1]]

\* variant: without a site nothing is reported
StatusNoSiteEmpty(st) == EmptyStatus

\* getPublishStatus: "If site does not exist, all local files are new"
StatusNoSite(st) ==
    [EmptyStatus EXCEPT !.newFiles =
        SelectSeq(Vault, LAMBDA file : ~shouldSkipFile(file, st.rootDir, st.excludePatterns))]

\* FlowershowClient.syncFiles: the request it sends
syncFiles(id, files, dryRun) ==
    [siteId |-> id, files |-> files, dryRun |-> dryRun,
     query |-> IF dryRun THEN "?dryRun=true" ELSE ""]

\* variant: the diff is requested without dry-run
StatusSyncRequestLive(id, st) ==
    syncFiles(id, MapSeq(NonSkipped(st), LAMBDA f : FileMetadata(f, st.rootDir)), FALSE)

\* getPublishStatus: the file records of the non-skipped files and the diff request
StatusSyncRequest(id, st) ==
    syncFiles(id, MapSeq(NonSkipped(st), LAMBDA f : FileMetadata(f, st.rootDir)), TRUE)

----------------------------------------------------------------------------
(* Inputs: arguments of the operations and responses of the remote *)

Usernames == {"u"}

\* the paths the remote site may hold: those of the vault's non-skipped
\* files as normalized under rootDir "b", and one the vault does not have
PathI == S1("i")
RemotePaths == {PathA, PathI, PathBO}

RECURSIVE SetToSeq(_)
SetToSeq(S) ==
    IF S = {} THEN <<>>
    ELSE LET x == CHOOSE y \in S : TRUE IN <<x>> \o SetToSeq(S \ {x})

OptSets(S) == {Absent} \cup {Some(T) : T \in SUBSET S}
OptSeqs(S) == {Absent} \cup {Some(SetToSeq(T)) : T \in SUBSET S}

\* the files a caller asks to publish: a note and an image inside rootDir
\* and a note outside it whose path normalizes to the same path as the note's
PubFiles == {NoteA, Image, Outside}

PubChoices == {Absent} \cup {Some(s) : s \in SeqsUpTo(PubFiles, MaxPub)}
DelChoices == {Absent} \cup {Some(s) : s \in SeqsUpTo(DelPaths, MaxDel)}

\* a response is ok (2xx, with the body the client returns) or not (the client throws)
UserResponses ==
    {[ok |-> TRUE, username |-> u] : u \in Usernames} \cup {[ok |-> FALSE, username |-> Null]}
SiteResponses(ids) ==
    {[ok |-> TRUE, site |-> s] : s \in {Null} \cup ids} \cup {[ok |-> FALSE, site |-> Null]}
CreateResponses(ids) ==
    {[ok |-> TRUE, site |-> s] : s \in ids} \cup {[ok |-> FALSE, site |-> Null]}

\* SyncFilesResponse: each list present or missing from the body
SyncFailure ==
    [ok |-> FALSE, unchanged |-> Absent, toUpdate |-> Absent, toUpload |-> Absent,
     deleted |-> Absent]

SyncResponses ==
    [ok : {TRUE}, unchanged : OptSets(RemotePaths), toUpdate : OptSets(RemotePaths),
     toUpload : OptSets(RemotePaths), deleted : OptSeqs(RemotePaths)]
    \cup {SyncFailure}

\* the argument of the remote call the caller is suspended at
PendingArg(r) == ArgOf(r.trace[Len(r.trace)])

\* DeleteFilesResponse.notFound: some of the paths sent
DeleteResponses(r) ==
    IF r.pc = "deleteFiles"
    THEN {[ok |-> TRUE, notFound |-> nf] : nf \in SubSeqsOf(PendingArg(r).paths)}
         \cup {[ok |-> FALSE, notFound |-> <<>>]}
    ELSE {}

\* PublishFilesResponse.files: upload directives for some of the files sent,
\* possibly one for a path that was not sent
UploadUrls(paths) == [i \in 1..Len(paths) |-> [path |-> paths[i], uploadUrl |-> i]]

PublishResponses(r) ==
    IF r.pc = "publishFiles"
    THEN {[ok |-> TRUE, files |-> UploadUrls(ps)] :
            ps \in SubSeqsOf(MapSeq(PendingArg(r).files, LAMBDA m : m.path) \o <<PathZ>>)}
         \cup {[ok |-> FALSE, files |-> <<>>]}
    ELSE {}

----------------------------------------------------------------------------
(* Actions *)

\* no helper call under evaluation
NoEval == [path |-> EmptyStr, rootDir |-> EmptyStr, fn |-> "none", arg |-> Null, out |-> Null]

Init ==
    /\ settings \in SettingsChoices
    /\ siteId = Null
    /\ username = Null
    /\ proc = [p \in Callers |-> IdleProc]
    /\ sitesCreated = 0
    /\ eval = NoEval
    /\ modified = {}

Resume(p, r) == proc' = [proc EXCEPT ![p] = r]

Enter(op) == [IdleProc EXCEPT !.op = op]

\* Publisher.getSiteId()
GetSiteId(p) ==
    /\ proc[p].pc = "idle"
    /\ Resume(p, IF siteId # Null
                 THEN Return(Enter("getSiteId"), siteId)
                 ELSE getSiteByName([Enter("getSiteId") EXCEPT !.ctx = "getSiteId"], username))
    /\ UNCHANGED <<eval, modified, settings, siteId, username, sitesCreated>>

\* Publisher.publishBatch(opts)
PublishBatch(p, pub, del) ==
    /\ proc[p].pc = "idle"
    /\ Resume(p, publishBatch(Enter("publishBatch"), pub, del))
    /\ UNCHANGED <<eval, modified, settings, siteId, username, sitesCreated>>

\* Publisher.publishSingleNoteWithEmbeds(file, withEmbeds)
PublishSingleNoteWithEmbeds(p, file, withEmbeds) ==
    /\ proc[p].pc = "idle"
    /\ Resume(p, publishSingleNoteWithEmbeds(Enter("publishSingleNoteWithEmbeds"),
                                             file, withEmbeds))
    /\ UNCHANGED <<eval, modified, settings, siteId, username, sitesCreated>>

\* Publisher.getPublishStatus()
GetPublishStatus(p) ==
    /\ proc[p].pc = "idle"
    /\ Resume(p, getSiteByName([Enter("getPublishStatus") EXCEPT !.ctx = "status"], username))
    /\ UNCHANGED <<eval, modified, settings, siteId, username, sitesCreated>>

\* getUsername resumes after client.getUserInfo()
GetUserInfoReturns(p, resp) ==
    LET r == Received(proc[p], resp.ok, resp.username) IN
    /\ r.pc = "getUserInfo"
    /\ IF resp.ok
       THEN /\ username' = resp.username
            /\ Resume(p, Await(r, "getSiteByName", resp.username))
       ELSE /\ UNCHANGED username
            /\ Resume(p, Raise(r, RemoteError("getUserInfo")))
    /\ UNCHANGED <<eval, modified, settings, siteId, sitesCreated>>

\* variant: only the published files are counted, the deleted paths are not
BatchResultPublishedOnly(r, site) ==
    [siteUrl |-> IF site # Null THEN SiteUrl(site) ELSE EmptyStr,
     filesPublished |-> LengthOr0(r.pub)]

\* publishBatch returns after the final site lookup
BatchResult(r, site) ==
    [siteUrl |-> IF site # Null THEN SiteUrl(site) ELSE EmptyStr,
     filesPublished |-> LengthOr0(r.pub) + LengthOr0(r.del)]

\* the caller resumes after client.getSiteByName(): in getSiteId, in
\* ensureSite, in getPublishStatus, or at the end of publishBatch
GetSiteByNameReturns(p, resp) ==
    LET r == Received(proc[p], resp.ok, resp.site)
        site == resp.site
    IN
    /\ r.pc = "getSiteByName"
    /\ IF ~resp.ok
       THEN /\ Resume(p, Raise(r, RemoteError("getSiteByName")))
            /\ UNCHANGED siteId
       ELSE CASE r.ctx = "getSiteId" ->
                   /\ siteId' = IF site # Null THEN site ELSE siteId
                   /\ Resume(p, Return(r, site))
              [] r.ctx = "ensureSite" ->
                   IF site # Null
                   THEN /\ siteId' = site
                        /\ Resume(p, HandleDeletions([r EXCEPT !.sid = site]))
                   ELSE /\ UNCHANGED siteId
                        /\ Resume(p, Await(r, "createSite", Null))
              [] r.ctx = "status" ->
                   IF site = Null
                   THEN /\ UNCHANGED siteId
                        /\ Resume(p, Return(r, StatusNoSite(settings)))
                   ELSE /\ siteId' = site
                        /\ Resume(p, Await([r EXCEPT !.sid = site], "syncFiles",
                                           StatusSyncRequest(site, settings)))
              [] r.ctx = "final" ->
                   /\ UNCHANGED siteId
                   /\ Resume(p, Return(r, BatchResult(r, site)))
    /\ UNCHANGED <<eval, modified, settings, username, sitesCreated>>

\* ensureSite resumes after client.createSite()
CreateSiteReturns(p, resp) ==
    LET r == Received(proc[p], resp.ok, resp.site) IN
    /\ r.pc = "createSite"
    /\ IF resp.ok
       THEN /\ siteId' = resp.site
            /\ sitesCreated' = sitesCreated + 1
            /\ Resume(p, HandleDeletions([r EXCEPT !.sid = resp.site]))
       ELSE /\ UNCHANGED <<siteId, sitesCreated>>
            /\ Resume(p, Catch(r, RemoteError("createSite")))
    /\ UNCHANGED <<eval, modified, settings, username>>

\* publishBatch resumes after client.deleteFiles()
DeleteFilesReturns(p, resp) ==
    LET r == Received(proc[p], resp.ok, resp.notFound) IN
    /\ r.pc = "deleteFiles"
    /\ Resume(p, IF ~resp.ok
                 THEN Catch(r, RemoteError("deleteFiles"))
                 ELSE CheckNotFound(r, resp.notFound))
    /\ UNCHANGED <<eval, modified, settings, siteId, username, sitesCreated>>

\* publishBatch resumes after client.publishFiles()
PublishFilesReturns(p, resp) ==
    LET r == Received(proc[p], resp.ok, resp.files) IN
    /\ r.pc = "publishFiles"
    /\ Resume(p, IF ~resp.ok
                 THEN Catch(r, RemoteError("publishFiles"))
                 ELSE UploadFiles([r EXCEPT !.dirs = resp.files]))
    /\ UNCHANGED <<eval, modified, settings, siteId, username, sitesCreated>>

\* publishBatch resumes after client.uploadToR2()
UploadToR2Returns(p, ok) ==
    LET r == Received(proc[p], ok, ok) IN
    /\ r.pc = "uploadToR2"
    /\ Resume(p, IF ~ok
                 THEN Catch(r, RemoteError("uploadToR2"))
                 ELSE UploadFiles([Log(r, Event("incrementPublish", Null))
                                      EXCEPT !.dirs = Tail(@)]))
    /\ UNCHANGED <<eval, modified, settings, siteId, username, sitesCreated>>

\* getPublishStatus resumes after client.syncFiles()
SyncFilesReturns(p, resp) ==
    LET r == Received(proc[p], resp.ok, resp) IN
    /\ r.pc = "syncFiles"
    /\ Resume(p, IF ~resp.ok
                 THEN Return(r, TreatAllAsNew(EmptyStatus, settings))
                 ELSE Return(r, StatusFromSync(resp, settings)))
    /\ UNCHANGED <<eval, modified, settings, siteId, username, sitesCreated>>

\* the "Publish all" command: Flowershow.publishAllFiles() up to the first remote call
PublishAllFiles(p) ==
    /\ proc[p].pc = "idle"
    /\ Resume(p, getSiteByName([Enter("getPublishStatus") EXCEPT !.ctx = "status",
                                                                !.cmd = "publishAllFiles"],
                               username))
    /\ UNCHANGED <<eval, modified, settings, siteId, username, sitesCreated>>

\* the command has ended without a publishBatch call
CommandEnds(status) ==
    [IdleProc EXCEPT !.pc = "done", !.op = "publishAllFiles", !.cmd = "publishAllFiles",
                     !.status = status, !.ret = <<"ok", Null>>]

\* variant: the unchanged files are requested as well
publishAllFilesEverything(r) ==
    LET status == Val(r)
        filesToDelete == status.deletedFiles
        filesToPublish == status.unchangedFiles \o status.changedFiles \o status.newFiles
    IN  IF Len(filesToDelete) = 0 /\ Len(filesToPublish) = 0
        THEN CommandEnds(status)
        ELSE publishBatch([Enter("publishBatch") EXCEPT !.cmd = "publishAllFiles",
                                                        !.status = status],
                          Some(filesToPublish), Some(filesToDelete))

\* publishAllFiles after getPublishStatus returned, up to the next remote call
publishAllFiles(r) ==
    LET status == Val(r)
        filesToDelete == status.deletedFiles
        filesToPublish == status.changedFiles \o status.newFiles
    IN  IF Len(filesToDelete) = 0 /\ Len(filesToPublish) = 0
        THEN CommandEnds(status)
        ELSE publishBatch([Enter("publishBatch") EXCEPT !.cmd = "publishAllFiles",
                                                        !.status = status],
                          Some(filesToPublish), Some(filesToDelete))

\* publishAllFiles resumes after getPublishStatus(); an error ends the
\* command in its catch block
PublishAllFilesContinues(p) ==
    /\ proc[p].pc = "done"
    /\ proc[p].cmd = "publishAllFiles"
    /\ proc[p].op = "getPublishStatus"
    /\ Resume(p, IF Kind(proc[p]) = "ok"
                 THEN publishAllFiles(proc[p])
                 ELSE CommandEnds(EmptyStatus))
    /\ UNCHANGED <<eval, modified, settings, siteId, username, sitesCreated>>

\* the caller takes the outcome of its operation
CallerResumes(p) ==
    /\ proc[p].pc = "done"
    /\ ~(proc[p].cmd = "publishAllFiles" /\ proc[p].op = "getPublishStatus")
    /\ Resume(p, IdleProc)
    /\ UNCHANGED <<eval, modified, settings, siteId, username, sitesCreated>>

\* one step of caller p, with the arguments and responses drawn from the given sets
Step(p, pubs, dels, notes, syncs, ids) ==
    \/ GetSiteId(p)
    \/ /\ proc[p].pc = "idle"
       /\ \E pub \in pubs, del \in dels : PublishBatch(p, pub, del)
    \/ /\ proc[p].pc = "idle"
       /\ \E file \in notes, withEmbeds \in BOOLEAN :
              PublishSingleNoteWithEmbeds(p, file, withEmbeds)
    \/ GetPublishStatus(p)
    \/ \E resp \in UserResponses : GetUserInfoReturns(p, resp)
    \/ \E resp \in SiteResponses(ids) : GetSiteByNameReturns(p, resp)
    \/ \E resp \in CreateResponses(ids) : CreateSiteReturns(p, resp)
    \/ \E resp \in DeleteResponses(proc[p]) : DeleteFilesReturns(p, resp)
    \/ \E resp \in PublishResponses(proc[p]) : PublishFilesReturns(p, resp)
    \/ \E ok \in BOOLEAN : UploadToR2Returns(p, ok)
    \/ /\ proc[p].pc = "syncFiles"
       /\ \E resp \in syncs : SyncFilesReturns(p, resp)
    \/ CallerResumes(p)

\* single flow: one caller, one operation at a time
Next ==
    \/ Step(MainCaller, PubChoices, DelChoices, VaultFiles, SyncResponses, SiteIds)
    \/ PublishAllFiles(MainCaller)
    \/ PublishAllFilesContinues(MainCaller)

Spec == Init /\ [][Next]_vars

\* Overlapping invocations: the host does not serialise its commands, so a
\* second caller may start an operation while the first is suspended at a
\* remote call.  Arguments and diff responses are drawn from small sets.
ConcPubs == {Some(<<NoteA>>)}
ConcDels == {Absent, Some(<<PathBO>>)}
ConcNotes == {NoteN}
ConcSyncs ==
    {SyncFailure,
     [ok |-> TRUE, unchanged |-> Some({PathA}), toUpdate |-> Some({}),
      toUpload |-> Some({PathI}), deleted |-> Some(<<PathBO>>)]}

ConcSites == {"s1"}

ConcNext == \E p \in Callers : Step(p, ConcPubs, ConcDels, ConcNotes, ConcSyncs, ConcSites)

ConcSpec == Init /\ [][ConcNext]_vars

\* Single flow in which every remote call is eventually answered (fetch
\* settles with a response or an error) and the continuation then runs.
LivePubs == {Absent, Some(<<>>), Some(<<NoteA>>), Some(<<NoteA, Image>>)}
LiveDels == {Absent, Some(<<PathBO>>)}
LiveNotes == {NoteA, NoteN}

LiveNext == Step(MainCaller, LivePubs, LiveDels, LiveNotes, ConcSyncs, SiteIds)

RemoteAnswers(p) ==
    \/ \E resp \in UserResponses : GetUserInfoReturns(p, resp)
    \/ \E resp \in SiteResponses(SiteIds) : GetSiteByNameReturns(p, resp)
    \/ \E resp \in CreateResponses(SiteIds) : CreateSiteReturns(p, resp)
    \/ \E resp \in DeleteResponses(proc[p]) : DeleteFilesReturns(p, resp)
    \/ \E resp \in PublishResponses(proc[p]) : PublishFilesReturns(p, resp)
    \/ \E ok \in BOOLEAN : UploadToR2Returns(p, ok)
    \/ \E resp \in ConcSyncs : SyncFilesReturns(p, resp)

LiveSpec == Init /\ [][LiveNext]_vars /\ WF_vars(RemoteAnswers(MainCaller))

\* Single flow in a vault that is edited while the engine runs: the user (or
\* another plugin) changes the bytes of a file at any moment, also while an
\* operation is suspended at a remote call.
EditableFiles == {NoteA, Image}

ModifyFile(file) ==
    /\ file.path \notin modified
    /\ Cardinality(modified) < MaxEdits
    /\ modified' = modified \cup {file.path}
    /\ UNCHANGED <<settings, siteId, username, proc, sitesCreated, eval>>

EditNext ==
    \/ Step(MainCaller, LivePubs, LiveDels, LiveNotes, ConcSyncs, SiteIds)
    \/ \E file \in EditableFiles : ModifyFile(file)

EditSpec == Init /\ [][EditNext]_vars

----------------------------------------------------------------------------
(* FlowershowClient.getSiteByName: from the HTTP response to what it returns *)

\* what the client sees of a response: the status, and in the body the
\* site (2xx) or the message (Null when the body has none or is not JSON)
HttpResponse(status, site, message) ==
    [status |-> status, site |-> site, message |-> message]

\* Response.ok
ResponseOk(response) == response.status \in 200..299

GenericSiteError == "Failed to fetch site"

\* variant: every non-2xx response is taken for "no such site"
FlowershowClient_getSiteByNameAnyFailureIsNull(response) ==
    IF ~ResponseOk(response)
    THEN <<"ok", Null>>
    ELSE <<"ok", response.site>>

\* the outcome of client.getSiteByName: <<"ok", site or Null>> or <<"error", message>>
FlowershowClient_getSiteByName(response) ==
    IF ~ResponseOk(response)
    THEN IF response.status = 404
         THEN <<"ok", Null>>
         ELSE <<"error", IF response.message # Null /\ response.message # ""
                         THEN response.message
                         ELSE GenericSiteError>>
    ELSE <<"ok", response.site>>

----------------------------------------------------------------------------
(* The pure helpers, each called once with arguments drawn from bounded sets *)

PathChars == {"/", "a", "b"}

Paths == SeqsUpTo(PathChars, MaxPathLen)
Roots == SeqsUpTo(PathChars, MaxRootLen)

PatternChoices ==
    {Pattern(FALSE, FALSE, S1("[")),
     Pattern(TRUE, TRUE, <<"b", "/">>),
     Pattern(TRUE, FALSE, S1("a"))}

PatternLists == {Absent} \cup {Some(ps) : ps \in SeqsUpTo(PatternChoices, MaxPatterns)}

\* the lists shouldSkipFile is called with: none, an empty one, one pattern,
\* and a pattern that does not compile followed by one that does
SkipPatternLists ==
    {Absent, Some(<<>>)} \cup {Some(<<pattern>>) : pattern \in PatternChoices}
    \cup {Some(<<Pattern(FALSE, FALSE, S1("[")), Pattern(TRUE, FALSE, S1("a"))>>)}

Extensions == {"md", "mdx", "png"}
FrontMatters == {"false", "true", "str", "nofm"}

HttpResponses ==
    {HttpResponse(st, site, Null) : st \in {200, 201}, site \in SiteIds}
    \cup {HttpResponse(st, Null, msg) : st \in {401, 404, 500}, msg \in {Null, "", "denied"}}

\* tokens: none, the bare prefix, a well-formed one, a truncated prefix, the
\* prefix not at the start, a wrong character inside the prefix
Tokens ==
    {EmptyStr, TokenPrefix, TokenPrefix \o <<"x">>,
     <<"f", "s", "_", "p", "a", "t">>,
     <<"x">> \o TokenPrefix,
     <<"f", "s", "_", "p", "a", "x", "_", "x">>}

SiteNames == {EmptyStr, <<"s">>}
Versions == {EmptyStr, <<"4">>}

HelperInit ==
    /\ settings \in SettingsChoices
    /\ siteId = Null
    /\ username = Null
    /\ proc = [p \in Callers |-> IdleProc]
    /\ sitesCreated = 0
    /\ eval \in {[NoEval EXCEPT !.path = path, !.rootDir = rootDir] :
                    path \in Paths, rootDir \in Roots}
    /\ modified = {}

Evaluate(fn, arg, out) ==
    /\ eval' = [eval EXCEPT !.fn = fn, !.arg = arg, !.out = out]
    /\ UNCHANGED <<settings, siteId, username, proc, sitesCreated, modified>>

NormalizePath ==
    /\ eval.fn = "none"
    /\ Evaluate("normalizePath", Null, normalizePath(eval.path, eval.rootDir))

\* the result of normalizePath, normalized once more with an empty rootDir
NormalizePathAgain ==
    /\ eval.fn = "normalizePath"
    /\ Evaluate("normalizePathAgain", eval.out, normalizePath(eval.out, EmptyStr))

IsWithinRootDir ==
    /\ eval.fn = "none"
    /\ Evaluate("isWithinRootDir", Null, isWithinRootDir(eval.path, eval.rootDir))

MatchesExcludePatterns(excludePatterns) ==
    /\ eval.fn = "none"
    /\ Evaluate("matchesExcludePatterns", excludePatterns,
                matchesExcludePatterns(eval.path, excludePatterns))

ShouldSkipFile(extension, fm, excludePatterns) ==
    /\ eval.fn = "none"
    /\ Evaluate("shouldSkipFile",
                [extension |-> extension, fm |-> fm, excludePatterns |-> excludePatterns],
                shouldSkipFile(TFile(eval.path, extension, fm, <<>>, <<>>),
                               eval.rootDir, excludePatterns))

\* validateSettings on settings whose rootDir is the drawn one
ValidateSettings(token, siteName, excludePatterns, lastSeenVersion) ==
    /\ eval.fn = "none"
    /\ eval.path = EmptyStr
    /\ LET st == [flowershowToken |-> token, siteName |-> siteName,
                  rootDir |-> eval.rootDir, excludePatterns |-> excludePatterns,
                  lastSeenVersion |-> lastSeenVersion]
       IN  Evaluate("validateSettings", st, validateSettings(st))

ClientGetSiteByName(response) ==
    /\ eval.fn = "none"
    /\ Evaluate("getSiteByName", response, FlowershowClient_getSiteByName(response))

HelperNext ==
    \/ NormalizePath
    \/ NormalizePathAgain
    \/ IsWithinRootDir
    \/ \E excludePatterns \in PatternLists : MatchesExcludePatterns(excludePatterns)
    \/ \E extension \in Extensions, fm \in FrontMatters, excludePatterns \in SkipPatternLists :
          ShouldSkipFile(extension, fm, excludePatterns)
    \/ \E response \in HttpResponses : ClientGetSiteByName(response)
    \/ \E token \in Tokens, siteName \in SiteNames,
          excludePatterns \in {Some(<<>>), ExcludePatterns}, lastSeenVersion \in Versions :
          ValidateSettings(token, siteName, excludePatterns, lastSeenVersion)

HelperSpec == HelperInit /\ [][HelperNext]_vars

----------------------------------------------------------------------------
(* Properties *)

Has(r, ev) == \E i \in DOMAIN r.trace : EvOf(r.trace[i]) = ev

\* the caller received this response to call
IsResponse(e, call) == EvOf(e) = "response" /\ ArgOf(e)[1] = call
RespOk(e) == ArgOf(e)[2]
RespVal(e) == ArgOf(e)[3]

Threw(r, call) ==
    \E i \in DOMAIN r.trace : IsResponse(r.trace[i], call) /\ ~RespOk(r.trace[i])

ElemsOf(s) == {s[i] : i \in DOMAIN s}

NoDuplicates(s) == \A i, j \in DOMAIN s : i # j => s[i] # s[j]

EmptyOrAbsent(opt) == opt = Absent \/ opt = Some(<<>>)

AllNew(st) ==
    [unchangedFiles |-> <<>>, changedFiles |-> <<>>, deletedFiles |-> <<>>,
     newFiles |-> NonSkipped(st)]

\* C1: publishBatch called with both lists empty or absent rejects with an
\* error in the step that calls it, having signalled no progress-start and
\* made no remote call, and leaves the cached site id and username unchanged.
C1_EmptyBatchRejected ==
    [][\A p \in Callers :
          (/\ proc[p].pc = "idle"
           /\ proc'[p].op = "publishBatch"
           /\ EmptyOrAbsent(proc'[p].pub)
           /\ EmptyOrAbsent(proc'[p].del))
          => /\ proc'[p].pc = "done"
             /\ Kind(proc'[p]) = "error"
             /\ Val(proc'[p]).name = "FlowershowError"
             /\ proc'[p].trace = <<>>
             /\ siteId' = siteId
             /\ username' = username]_vars

C1_Witness ==
    \E p \in Callers :
        /\ proc[p].op = "publishBatch"
        /\ proc[p].pub = Some(<<>>)
        /\ proc[p].del = Some(<<>>)
        /\ Kind(proc[p]) = "error"
        /\ siteId # Null

Started(r) == Has(r, "start")

FinishedAfterStart(r) ==
    \E i, j \in DOMAIN r.trace :
        i < j /\ EvOf(r.trace[i]) = "start" /\ EvOf(r.trace[j]) = "finish"

LastIsFinishZero(r) ==
    /\ r.trace # <<>>
    /\ EvOf(r.trace[Len(r.trace)]) = "finish"
    /\ ArgOf(r.trace[Len(r.trace)]) = 0

\* C2: every publishBatch execution that signalled progress-start eventually
\* signals progress-finish; when it ends (with a result or an error) finish
\* has been signalled, and when it ends with an error the last signal before
\* the error reaches the caller is finish with zero linger.
C2_FinishAlwaysSignalled ==
    /\ [](\A p \in Callers :
            (Started(proc[p]) /\ proc[p].pc = "done")
            => /\ FinishedAfterStart(proc[p])
               /\ Kind(proc[p]) = "error" => LastIsFinishZero(proc[p]))
    /\ \A p \in Callers : Started(proc[p]) ~> FinishedAfterStart(proc[p])

C2_Witness ==
    \E p \in Callers :
        /\ Started(proc[p])
        /\ Threw(proc[p], "uploadToR2")
        /\ Kind(proc[p]) = "error"
        /\ LastIsFinishZero(proc[p])

\* C3: the result of getPublishStatus lists every non-skipped local file in
\* exactly one of unchangedFiles, changedFiles and newFiles, and lists no
\* other file, whatever the remote sync response.
C3_Partition ==
    \A p \in Callers :
        (proc[p].op = "getPublishStatus" /\ proc[p].pc = "done" /\ Kind(proc[p]) = "ok")
        => LET st == Val(proc[p])
               all == st.unchangedFiles \o st.changedFiles \o st.newFiles
           IN  /\ NoDuplicates(all)
               /\ ElemsOf(all) = ElemsOf(NonSkipped(settings))

\* C4: when the site exists and the syncFiles call throws, getPublishStatus
\* does not throw and returns all non-skipped local files as newFiles and
\* the other three lists empty.
C4_FailOpenOnDiffError ==
    \A p \in Callers :
        (proc[p].op = "getPublishStatus" /\ Threw(proc[p], "syncFiles"))
        => /\ proc[p].pc = "done"
           /\ Kind(proc[p]) = "ok"
           /\ Val(proc[p]) = AllNew(settings)

C4_Witness ==
    \E p \in Callers :
        /\ proc[p].op = "getPublishStatus"
        /\ Threw(proc[p], "syncFiles")
        /\ Kind(proc[p]) = "ok"
        /\ Val(proc[p]).newFiles = <<NoteA, Image>>

LookupFoundNoSite(r) ==
    \E i \in DOMAIN r.trace :
        /\ IsResponse(r.trace[i], "getSiteByName")
        /\ RespOk(r.trace[i])
        /\ RespVal(r.trace[i]) = Null

\* C5: when the site lookup of getPublishStatus finds no site, the result
\* has every non-skipped local file in newFiles and the other lists empty,
\* and the operation has called neither syncFiles nor createSite.
C5_NoSiteAllNew ==
    \A p \in Callers :
        (proc[p].op = "getPublishStatus" /\ LookupFoundNoSite(proc[p]))
        => /\ proc[p].pc = "done"
           /\ Kind(proc[p]) = "ok"
           /\ Val(proc[p]) = AllNew(settings)
           /\ ~Has(proc[p], "syncFiles")
           /\ ~Has(proc[p], "createSite")

C5_Witness ==
    \E p \in Callers :
        /\ proc[p].op = "getPublishStatus"
        /\ LookupFoundNoSite(proc[p])
        /\ Kind(proc[p]) = "ok"
        /\ Val(proc[p]).newFiles = <<NoteA, Image>>

\* C6: getPublishStatus is read-only towards the remote: it issues no
\* createSite, publishFiles, deleteFiles or storage PUT call, and every
\* syncFiles call it issues is a dry run (dryRun = true, sent as ?dryRun=true).
C6_StatusIsReadOnly ==
    \A p \in Callers :
        proc[p].op = "getPublishStatus"
        => \A i \in DOMAIN proc[p].trace :
              LET e == proc[p].trace[i] IN
              /\ EvOf(e) \notin {"createSite", "publishFiles", "deleteFiles", "uploadToR2"}
              /\ EvOf(e) = "syncFiles"
                 => ArgOf(e).dryRun = TRUE /\ ArgOf(e).query = "?dryRun=true"

C6_Witness ==
    \E p \in Callers :
        /\ proc[p].op = "getPublishStatus"
        /\ proc[p].pc = "done"
        /\ Has(proc[p], "syncFiles")
        /\ Val(proc[p]).changedFiles = <<NoteA>>

\* C7: in publishBatch, when the delete response lists any path as notFound
\* the operation fails with an error naming exactly those paths, and it has
\* made no publish-files call and no upload.
C7_NotFoundFailsBatch ==
    \A p \in Callers :
        \A i \in DOMAIN proc[p].trace :
            LET e == proc[p].trace[i] IN
            (IsResponse(e, "deleteFiles") /\ RespOk(e) /\ RespVal(e) # <<>>)
            => /\ proc[p].pc = "done"
               /\ Kind(proc[p]) = "error"
               /\ Val(proc[p]).name = "FlowershowError"
               /\ Val(proc[p]).paths = RespVal(e)
               /\ ~Has(proc[p], "publishFiles")
               /\ ~Has(proc[p], "uploadToR2")

C7_Witness ==
    \E p \in Callers :
        /\ HasLength(proc[p].pub)
        /\ \E i \in DOMAIN proc[p].trace :
              /\ IsResponse(proc[p].trace[i], "deleteFiles")
              /\ RespOk(proc[p].trace[i])
              /\ RespVal(proc[p].trace[i]) = <<PathO>>
        /\ Kind(proc[p]) = "error"
        /\ Val(proc[p]).paths = <<PathO>>

\* C8: every path of filesToDelete is sent in the delete request normalized
\* against rootDir, in the order given; with rootDir "b" the path "b/o" is
\* sent as "o".
C8_DeletePathsNormalized ==
    \A p \in Callers :
        \A i \in DOMAIN proc[p].trace :
            LET e == proc[p].trace[i]
                requested == Items(proc[p].del)
            IN
            EvOf(e) = "deleteFiles"
            => /\ Len(ArgOf(e).paths) = Len(requested)
               /\ \A k \in DOMAIN requested :
                     /\ ArgOf(e).paths[k] = normalizePath(requested[k], settings.rootDir)
                     /\ (settings.rootDir = RootB /\ requested[k] = PathBO)
                        => ArgOf(e).paths[k] = PathO

C8_Witness ==
    \E p \in Callers :
        /\ settings.rootDir = RootB
        /\ proc[p].del = Some(<<PathBO>>)
        /\ \E i \in DOMAIN proc[p].trace :
              /\ EvOf(proc[p].trace[i]) = "deleteFiles"
              /\ ArgOf(proc[p].trace[i]).paths = <<PathO>>

\* C9: createSite is called at most once in total, also when two callers
\* request the site concurrently while no site exists: the engine creates
\* at most one site.
C9_SiteCreatedOnce == sitesCreated <= 1

\* C10: publishSingleNoteWithEmbeds on a file whose front-matter has publish
\* equal to boolean false fails with an error, having made no remote call
\* and signalled no progress-start.
C10_PublishFalseRejected ==
    \A p \in Callers :
        (/\ proc[p].op = "publishSingleNoteWithEmbeds"
         /\ proc[p].note # Absent
         /\ proc[p].note[1].fm = "false")
        => /\ proc[p].pc = "done"
           /\ Kind(proc[p]) = "error"
           /\ Val(proc[p]).name = "FlowershowError"
           /\ proc[p].trace = <<>>

C10_Witness ==
    \E p \in Callers :
        /\ proc[p].op = "publishSingleNoteWithEmbeds"
        /\ proc[p].note = Some(NoteN)
        /\ Kind(proc[p]) = "error"
        /\ proc[p].trace = <<>>

IsBatch(r) == r.op \in {"publishBatch", "publishSingleNoteWithEmbeds"}

\* the directives of a publish response that name a file of the request
MatchedDirectives(r, dirs) ==
    {k \in DOMAIN dirs :
        \E i \in DOMAIN Items(r.pub) :
            normalizePath(Items(r.pub)[i].path, settings.rootDir) = dirs[k].path}

\* C11: in publishBatch a failed storage PUT affects its own file only: when
\* the operation has ended, a PUT has been attempted for every upload
\* directive of the batch that names a requested file, also after one of
\* the PUTs failed.
C11_SiblingUploadsAttempted ==
    \A p \in Callers :
        (IsBatch(proc[p]) /\ proc[p].pc = "done" /\ Threw(proc[p], "uploadToR2"))
        => \A i \in DOMAIN proc[p].trace :
              LET e == proc[p].trace[i] IN
              (IsResponse(e, "publishFiles") /\ RespOk(e))
              => \A k \in MatchedDirectives(proc[p], RespVal(e)) :
                    \E j \in DOMAIN proc[p].trace :
                        /\ EvOf(proc[p].trace[j]) = "uploadToR2"
                        /\ ArgOf(proc[p].trace[j]).uploadUrl = RespVal(e)[k].uploadUrl

\* C12: when publishBatch returns, filesPublished is the number of files
\* requested to publish plus the number of paths requested to delete, and
\* siteUrl is the url of the site the final lookup found (empty when it
\* found none).
C12_BatchResult ==
    \A p \in Callers :
        (IsBatch(proc[p]) /\ proc[p].pc = "done" /\ Kind(proc[p]) = "ok")
        => LET res == Val(proc[p])
               last == proc[p].trace[Len(proc[p].trace)]
           IN  /\ res.filesPublished = Len(Items(proc[p].pub)) + Len(Items(proc[p].del))
               /\ IsResponse(last, "getSiteByName")
               /\ RespOk(last)
               /\ res.siteUrl = IF RespVal(last) = Null THEN <<>> ELSE SiteUrl(RespVal(last))

C12_Witness ==
    \E p \in Callers :
        /\ proc[p].op = "publishBatch"
        /\ proc[p].pub = Some(<<NoteA>>)
        /\ proc[p].del = Absent
        /\ Has(proc[p], "createSite")
        /\ Has(proc[p], "incrementPublish")
        /\ Kind(proc[p]) = "ok"
        /\ Val(proc[p]).filesPublished = 1
        /\ Val(proc[p]).siteUrl = SiteUrl("s2")

UploadsCompleted(r) ==
    Cardinality({i \in DOMAIN r.trace : EvOf(r.trace[i]) = "incrementPublish"})

\* C13: the filesPublished count publishBatch returns reflects partial
\* success: it is the number of files whose upload completed plus the number
\* of paths deleted, so it is smaller than the requested count when a
\* requested file was not uploaded.
C13_CountReflectsPartialSuccess ==
    \A p \in Callers :
        (IsBatch(proc[p]) /\ proc[p].pc = "done" /\ Kind(proc[p]) = "ok")
        => Val(proc[p]).filesPublished
             = UploadsCompleted(proc[p]) + Len(Items(proc[p].del))

AllSlashes(s) == \A i \in DOMAIN s : s[i] = "/"

\* s is path without its leading slashes
IsLeadingStripped(path, s) ==
    \E k \in 0..Len(path) :
        /\ AllSlashes(SubSeq(path, 1, k))
        /\ s = SubSeq(path, k + 1, Len(path))
        /\ s # <<>> => s[1] # "/"

\* t is root without its leading and trailing slashes
IsTrimmed(root, t) ==
    \E i, j \in 0..Len(root) :
        /\ i + j <= Len(root)
        /\ AllSlashes(SubSeq(root, 1, i))
        /\ AllSlashes(SubSeq(root, Len(root) - j + 1, Len(root)))
        /\ t = SubSeq(root, i + 1, Len(root) - j)
        /\ t # <<>> => (t[1] # "/" /\ t[Len(t)] # "/")

Suffixes(s) == {SubSeq(s, k, Len(s)) : k \in 1..(Len(s) + 1)}
Infixes(s) == {SubSeq(s, i, j) : i \in 1..(Len(s) + 1), j \in 0..Len(s)}

\* s is t, a "/", and rest
IsUnder(s, t, rest) == s = t \o <<"/">> \o rest

\* C14: path normalization is idempotent: normalizing the result of
\* normalizePath(p, r) once more, with an empty root, gives the same result.
C14_NormalizeIdempotent ==
    eval.fn = "normalizePathAgain" => eval.out = eval.arg

WithinRoot(path, rootDir) ==
    \/ rootDir = <<>>
    \/ \E s \in Suffixes(path), t \in Infixes(rootDir) :
          /\ IsLeadingStripped(path, s)
          /\ IsTrimmed(rootDir, t)
          /\ (s = t \/ \E rest \in Suffixes(s) : IsUnder(s, t, rest))

\* C15: isWithinRootDir(path, rootDir) is true exactly when rootDir is empty,
\* or the path without its leading slashes is the slash-trimmed rootDir or
\* is that rootDir, a "/" and a remainder; a path that extends the root's
\* last segment (root "b", path "ba/") is not within the root.
C15_WithinRootDir ==
    eval.fn = "isWithinRootDir"
    => /\ eval.out = WithinRoot(eval.path, eval.rootDir)
       /\ (eval.rootDir = <<"b">> /\ eval.path = <<"b", "a", "/">>) => eval.out = FALSE

C15_Witness ==
    /\ eval.fn = "isWithinRootDir"
    /\ eval.rootDir = <<"b">>
    /\ eval.path = <<"b", "a", "/">>
    /\ eval.out = FALSE

\* C16: normalizePath(path, rootDir) strips the leading slashes of path;
\* with a non-empty rootDir it removes the slash-trimmed rootDir and the "/"
\* that follows it when the path starts with both, returns the empty string
\* when the path is the rootDir, and otherwise returns the stripped path as
\* it is (also when the path only extends the root's last segment).
C16_NormalizePath ==
    eval.fn = "normalizePath"
    => \E s \in Suffixes(eval.path), t \in Infixes(eval.rootDir) :
          /\ IsLeadingStripped(eval.path, s)
          /\ IsTrimmed(eval.rootDir, t)
          /\ IF eval.rootDir = <<>>
             THEN eval.out = s
             ELSE IF \E rest \in Suffixes(s) : IsUnder(s, t, rest)
             THEN IsUnder(s, t, eval.out)
             ELSE IF s = t
             THEN eval.out = <<>>
             ELSE eval.out = s

C16_Witness ==
    /\ eval.fn = "normalizePath"
    /\ eval.rootDir = <<"/", "b">>
    /\ eval.path = <<"/", "b", "a">>
    /\ eval.out = <<"b", "a">>

\* new RegExp(pattern).test(path) for a pattern that compiles
RegexTest(pattern, path) ==
    IF pattern.anchored
    THEN \E rest \in Suffixes(path) : path = pattern.lit \o rest
    ELSE \E pre \in Infixes(path), rest \in Suffixes(path) : path = pre \o pattern.lit \o rest

AnyValidPatternMatches(path, excludePatterns) ==
    /\ excludePatterns # Absent
    /\ \E i \in DOMAIN excludePatterns[1] :
          /\ excludePatterns[1][i].valid
          /\ RegexTest(excludePatterns[1][i], path)

\* C17: matchesExcludePatterns always returns a boolean: true exactly when
\* some pattern of the list that compiles matches the path; a pattern that
\* does not compile counts as non-matching, and an empty or undefined list
\* gives false.
C17_InvalidPatternIgnored ==
    eval.fn = "matchesExcludePatterns"
    => /\ eval.out \in BOOLEAN
       /\ eval.out = AnyValidPatternMatches(eval.path, eval.arg)
       /\ (eval.arg = Absent \/ eval.arg = Some(<<>>)) => eval.out = FALSE

C17_Witness ==
    /\ eval.fn = "matchesExcludePatterns"
    /\ eval.path = <<"b", "/", "a">>
    /\ eval.arg = Some(<<Pattern(FALSE, FALSE, S1("[")), Pattern(TRUE, TRUE, <<"b", "/">>)>>)
    /\ eval.out = TRUE

\* C18: shouldSkipFile is true exactly when the file is not within rootDir,
\* or its path matches an exclusion pattern, or it is an md/mdx file whose
\* front-matter has publish equal to boolean false; publish: true does not
\* override the first two.
C18_ShouldSkipFile ==
    eval.fn = "shouldSkipFile"
    => LET outside == ~WithinRoot(eval.path, eval.rootDir)
           excluded == AnyValidPatternMatches(eval.path, eval.arg.excludePatterns)
           marked == eval.arg.extension \in {"md", "mdx"} /\ eval.arg.fm = "false"
       IN  /\ eval.out = (outside \/ excluded \/ marked)
           /\ (eval.arg.fm = "true" /\ (outside \/ excluded)) => eval.out = TRUE

C18_Witness ==
    /\ eval.fn = "shouldSkipFile"
    /\ eval.rootDir = <<"b">>
    /\ eval.path = <<"b", "/", "a">>
    /\ eval.arg = [extension |-> "png", fm |-> "false", excludePatterns |-> Absent]
    /\ eval.out = FALSE

\* C19: exclusion patterns are tested against the file's full path from the
\* vault root: with rootDir "b" and the pattern "^b/d/" the file "b/d/p" is
\* excluded, so getPublishStatus neither sends it in the diff request nor
\* lists it in its result.
C19_PatternsSeeFullPath ==
    \A p \in Callers :
        (proc[p].op = "getPublishStatus" /\ settings.rootDir = RootB)
        => /\ \A i \in DOMAIN proc[p].trace :
                 LET e == proc[p].trace[i] IN
                 EvOf(e) = "syncFiles"
                 => \A k \in DOMAIN ArgOf(e).files :
                       ArgOf(e).files[k].path # S3("d", "/", "p")
           /\ (proc[p].pc = "done" /\ Kind(proc[p]) = "ok")
              => LET st == Val(proc[p]) IN
                 Draft \notin ElemsOf(st.unchangedFiles \o st.changedFiles \o st.newFiles)

C19_Witness ==
    \E p \in Callers :
        /\ proc[p].op = "getPublishStatus"
        /\ settings.rootDir = RootB
        /\ Has(proc[p], "syncFiles")
        /\ Kind(proc[p]) = "ok"
        /\ Val(proc[p]).newFiles = <<NoteA, Image>>
        /\ isWithinRootDir(Draft.path, settings.rootDir)

\* C20: client.getSiteByName returns null exactly when the status is 404;
\* a 2xx response returns the site; any other status raises an error whose
\* message is the message of the body when it has one and a generic message
\* otherwise.
C20_SiteLookupOutcome ==
    eval.fn = "getSiteByName"
    => LET response == eval.arg
           outcome == eval.out
       IN  /\ (outcome = <<"ok", Null>>) <=> (response.status = 404)
           /\ response.status \in 200..299 => outcome = <<"ok", response.site>>
           /\ response.status \notin (200..299) \cup {404}
              => /\ outcome[1] = "error"
                 /\ outcome[2] = IF response.message \in {Null, ""}
                                 THEN GenericSiteError
                                 ELSE response.message

C20_Witness ==
    /\ eval.fn = "getSiteByName"
    /\ eval.arg = HttpResponse(500, Null, "denied")
    /\ eval.out = <<"error", "denied">>

\* C21: an error raised by a remote client call reaches the caller of the
\* operation as that same error: after a failed site lookup, user lookup,
\* create, delete, publish-files or upload the operation has ended with the
\* error of that call; only a failed diff in getPublishStatus is swallowed.
C21_ClientErrorsPropagate ==
    \A p \in Callers :
        \A i \in DOMAIN proc[p].trace :
            LET e == proc[p].trace[i] IN
            (EvOf(e) = "response" /\ ~RespOk(e))
            => /\ proc[p].pc = "done"
               /\ i = Len(proc[p].trace) \/ LastIsFinishZero(proc[p])
               /\ IF ArgOf(e)[1] = "syncFiles"
                  THEN Kind(proc[p]) = "ok"
                  ELSE /\ Kind(proc[p]) = "error"
                       /\ Val(proc[p]) = RemoteError(ArgOf(e)[1])

C21_Witness ==
    \E p \in Callers :
        /\ proc[p].op = "publishBatch"
        /\ proc[p].ctx = "ensureSite"
        /\ Threw(proc[p], "getUserInfo")
        /\ Kind(proc[p]) = "error"
        /\ Val(proc[p]) = RemoteError("getUserInfo")

IsPublishAll(r) == r.cmd = "publishAllFiles"

C22_ValidateSettings ==
    eval.fn = "validateSettings"
    => LET token == eval.arg.flowershowToken IN
       /\ eval.out = (/\ token # <<>>
                      /\ eval.arg.siteName # <<>>
                      /\ Len(token) >= 7
                      /\ <<token[1], token[2], token[3], token[4]>> = <<"f", "s", "_", "p">>
                      /\ <<token[5], token[6], token[7]>> = <<"a", "t", "_">>)
       /\ (token = TokenPrefix /\ eval.arg.siteName # <<>>) => eval.out = TRUE

C22_Witness ==
    /\ eval.fn = "validateSettings"
    /\ eval.arg.flowershowToken = TokenPrefix
    /\ eval.arg.siteName = <<"s">>
    /\ eval.arg.rootDir = <<"/", "b">>
    /\ eval.arg.excludePatterns = ExcludePatterns
    /\ eval.out = TRUE

PathsOf(files) == [i \in DOMAIN files |-> files[i].path]

ResolvableEmbeds(file) ==
    {file.embeds[i] : i \in {j \in DOMAIN file.embeds :
                                \E f \in VaultFiles : f.path = file.embeds[j]}}

\* C24: the file list publishSingleNoteWithEmbeds passes to publishBatch is
\* the note alone, or the note and every resolvable embed target, and no
\* path occurs twice in it, also when the note embeds itself or embeds one
\* target several times.
C24_EmbedsUnique ==
    \A p \in Callers :
        (proc[p].op = "publishSingleNoteWithEmbeds" /\ proc[p].pub # Absent)
        => LET note == proc[p].note[1]
               files == Items(proc[p].pub)
           IN  /\ files[1] = note
               /\ \/ files = <<note>>
                  \/ ElemsOf(PathsOf(files)) = {note.path} \cup ResolvableEmbeds(note)
               /\ NoDuplicates(PathsOf(files))

\* the answer of a remote that keeps to the diff contract for the paths it
\* was sent: unchanged, toUpdate and toUpload partition them, and deleted
\* names none of them
IsDiffOf(resp, sent) ==
    /\ resp.ok
    /\ resp.unchanged # Absent /\ resp.toUpdate # Absent
    /\ resp.toUpload # Absent /\ resp.deleted # Absent
    /\ resp.unchanged[1] \cup resp.toUpdate[1] \cup resp.toUpload[1] = sent
    /\ resp.unchanged[1] \cap resp.toUpdate[1] = {}
    /\ resp.unchanged[1] \cap resp.toUpload[1] = {}
    /\ resp.toUpdate[1] \cap resp.toUpload[1] = {}
    /\ ElemsOf(resp.deleted[1]) \cap sent = {}

\* the paths such a remote holds: those it compared and those only it has
RemoteHolds(resp) == resp.unchanged[1] \cup resp.toUpdate[1] \cup ElemsOf(resp.deleted[1])

LocalPaths(st) == {normalizePath(f.path, st.rootDir) : f \in ElemsOf(NonSkipped(st))}

IndicesOf(r, evs) == {i \in DOMAIN r.trace : EvOf(r.trace[i]) \in evs}

IsNotFound(e) == IsResponse(e, "getSiteByName") /\ RespOk(e) /\ RespVal(e) = Null

\* C26: the events of a publishBatch execution are in this order: first
\* progress-start with the totals of both lists, before any remote call;
\* then the site resolution (user and site lookup, and a create only right
\* after a lookup that found no site); then at most one delete request;
\* then at most one publish-files request and after it the uploads; then
\* progress-finish.  Lookups occur only before the first mutation or after
\* progress-finish.
C26_BatchEventOrder ==
    \A p \in Callers :
        (IsBatch(proc[p]) /\ proc[p].trace # <<>>)
        => LET r == proc[p]
               t == r.trace
               starts == IndicesOf(r, {"start"})
               lookups == IndicesOf(r, {"getUserInfo", "getSiteByName"})
               creates == IndicesOf(r, {"createSite"})
               deletes == IndicesOf(r, {"deleteFiles"})
               publishes == IndicesOf(r, {"publishFiles"})
               uploads == IndicesOf(r, {"uploadToR2"})
               finishes == IndicesOf(r, {"finish"})
               work == creates \cup deletes \cup publishes \cup uploads
           IN  /\ starts = {1}
               /\ ArgOf(t[1]) = [publishTotal |-> OptLength(r.pub),
                                 deleteTotal |-> OptLength(r.del)]
               /\ Cardinality(creates) <= 1
               /\ Cardinality(deletes) <= 1
               /\ Cardinality(publishes) <= 1
               /\ \A c \in creates : IsNotFound(t[c - 1])
               /\ \A c \in creates, w \in deletes \cup publishes \cup uploads : c < w
               /\ \A d \in deletes, w \in publishes \cup uploads : d < w
               /\ \A u \in uploads : \E q \in publishes : q < u
               /\ \A f \in finishes, w \in work : w < f
               /\ \A l \in lookups :
                     \/ \A w \in work \cup finishes : l < w
                     \/ \E f \in finishes : f < l

C26_Witness ==
    \E p \in Callers :
        /\ proc[p].op = "publishBatch"
        /\ Kind(proc[p]) = "ok"
        /\ Has(proc[p], "createSite")
        /\ Has(proc[p], "deleteFiles")
        /\ Cardinality(IndicesOf(proc[p], {"uploadToR2"})) = 2
        /\ EvOf(proc[p].trace[Len(proc[p].trace) - 2]) = "finish"

PutsTo(r, url) ==
    {j \in DOMAIN r.trace :
        EvOf(r.trace[j]) = "uploadToR2" /\ ArgOf(r.trace[j]).uploadUrl = url}

InFlight(r) == r.pc \notin {"idle", "done"}

\* C28: the engine performs one publish or status operation at a time: no
\* operation is started, and no remote call issued, while another operation
\* of the same engine is suspended at a remote call.
C28_OneOperationAtATime ==
    \A p, q \in Callers :
        p # q => ~(InFlight(proc[p]) /\ InFlight(proc[q]))

\* C29: the cached site id and the cached username are write-once: once
\* either is set, no step changes it.
C29_CacheWriteOnce ==
    [][/\ siteId # Null => siteId' = siteId
       /\ username # Null => username' = username]_vars

\* the step issues createSite for caller p
IssuesCreateSite(p) == proc[p].pc # "createSite" /\ proc'[p].pc = "createSite"

\* C30: createSite is called only in the site resolution of publishBatch,
\* only while no site id is cached and right after the lookup of that
\* resolution found no site; getSiteId and getPublishStatus never call it.
C30_CreateOnlyWhenAbsent ==
    [][\A p \in Callers :
          IssuesCreateSite(p)
          => /\ IsBatch(proc'[p])
             /\ proc'[p].ctx = "ensureSite"
             /\ siteId = Null
             /\ Len(proc'[p].trace) >= 2
             /\ IsNotFound(proc'[p].trace[Len(proc'[p].trace) - 1])]_vars

\* the try block of getPublishStatus throws on this syncFiles response: the
\* call failed, or the body lacks a list the code reads
StatusThrows(resp, st) ==
    \/ ~resp.ok
    \/ resp.deleted = Absent
    \/ CategorizeFiles(Vault, resp, st,
                       [unchangedFiles |-> <<>>, changedFiles |-> <<>>,
                        newFiles |-> <<>>, thrown |-> FALSE]).thrown

\* C31: when an exception occurs in getPublishStatus after the site was
\* found (the diff call fails, or the classification fails part-way on a
\* malformed response), the result has every non-skipped local file once in
\* newFiles and the other three lists empty.
C31_FailOpenResetsLists ==
    \A p \in Callers :
        (proc[p].op = "getPublishStatus" /\ proc[p].pc = "done")
        => \A i \in DOMAIN proc[p].trace :
              LET e == proc[p].trace[i] IN
              (IsResponse(e, "syncFiles") /\ StatusThrows(RespVal(e), settings))
              => /\ Kind(proc[p]) = "ok"
                 /\ Val(proc[p]) = AllNew(settings)

\* C32: a publishBatch execution that signalled progress-start and has ended
\* has signalled progress-finish exactly once, also when the site lookup
\* made after the uploads to obtain the URL failed.
C32_FinishExactlyOnce ==
    \A p \in Callers :
        (IsBatch(proc[p]) /\ Started(proc[p]) /\ proc[p].pc = "done")
        => Cardinality(IndicesOf(proc[p], {"finish"})) = 1

\* C33: the remote paths getPublishStatus reported in deletedFiles, passed
\* by "Publish all" to publishBatch under the same rootDir, are sent in the
\* delete request as those same paths, also a remote path that begins with
\* rootDir and a slash.
C33_DeletedPathsRoundTrip ==
    \A p \in Callers :
        IsPublishAll(proc[p])
        => \A i \in DOMAIN proc[p].trace :
              EvOf(proc[p].trace[i]) = "deleteFiles"
              => ArgOf(proc[p].trace[i]).paths = proc[p].status.deletedFiles

\* the files whose records a publish-files request of the caller carried
SentFiles(r) == IF Has(r, "publishFiles") THEN ElemsOf(Items(r.pub)) ELSE {}

\* C34: no file that shouldSkipFile skips (outside rootDir, matching an
\* exclusion pattern, or marked publish: false) is included in a
\* publish-files request or uploaded, in particular not as an embed target
\* added by publishSingleNoteWithEmbeds.
C34_SkippedNeverPublished ==
    \A p \in Callers :
        IsBatch(proc[p])
        => /\ \A f \in SentFiles(proc[p]) :
                 ~shouldSkipFile(f, settings.rootDir, settings.excludePatterns)
           /\ \A i \in DOMAIN proc[p].trace :
                 EvOf(proc[p].trace[i]) = "uploadToR2"
                 => \A f \in VaultFiles :
                       (f \in ElemsOf(Items(proc[p].pub))
                        /\ f.content = ArgOf(proc[p].trace[i]).content)
                       => ~shouldSkipFile(f, settings.rootDir, settings.excludePatterns)

\* the embed case of C34: a note that may be published takes a note marked
\* publish: false with it
C34_EmbedCase ==
    \E p \in Callers :
        /\ proc[p].op = "publishSingleNoteWithEmbeds"
        /\ proc[p].note = Some(NoteA)
        /\ NoteN \in SentFiles(proc[p])
        /\ \E i \in DOMAIN proc[p].trace :
              /\ EvOf(proc[p].trace[i]) = "uploadToR2"
              /\ ArgOf(proc[p].trace[i]).content = NoteN.content

\* C35: in publishBatch the bytes of every PUT are the bytes whose
\* fingerprint was sent for that path in the publish-files request of the
\* batch, also when the vault file was modified while the operation was
\* suspended at a remote call.
C35_UploadMatchesFingerprint ==
    \A p \in Callers :
        IsBatch(proc[p])
        => \A i, j \in DOMAIN proc[p].trace :
              LET req == proc[p].trace[i]
                  put == proc[p].trace[j]
              IN  (EvOf(req) = "publishFiles" /\ EvOf(put) = "uploadToR2")
                  => \E k \in DOMAIN ArgOf(req).files :
                        /\ ArgOf(req).files[k].path = ArgOf(put).path
                        /\ ArgOf(req).files[k].sha = Sha(ArgOf(put).content)

\* C36: within one publishBatch distinct requested files are registered
\* under distinct remote paths, and the bytes of every PUT are those of the
\* file registered under the directive's path, also when the batch mixes a
\* file outside rootDir with files inside it.
C36_DistinctRemotePaths ==
    \A p \in Callers :
        IsBatch(proc[p])
        => LET files == Items(proc[p].pub) IN
           \A i \in DOMAIN proc[p].trace :
              LET e == proc[p].trace[i] IN
              /\ EvOf(e) = "publishFiles"
                 => \A k, l \in DOMAIN files :
                       files[k] # files[l] => ArgOf(e).files[k].path # ArgOf(e).files[l].path
              /\ EvOf(e) = "uploadToR2"
                 => \A k \in DOMAIN files :
                       normalizePath(files[k].path, settings.rootDir) = ArgOf(e).path
                       => ArgOf(e).content = cachedRead(files[k])

\* the delete step of the batch succeeded: the delete request was answered
\* and no path was reported as not found
DeleteSucceeded(r) ==
    \E i \in DOMAIN r.trace :
        /\ IsResponse(r.trace[i], "deleteFiles")
        /\ RespOk(r.trace[i])
        /\ RespVal(r.trace[i]) = <<>>

\* C37: when the delete step of publishBatch succeeded for n >= 1 requested
\* paths, the number of delete-progress increments signalled is n, the
\* deleteTotal declared at progress-start.
C37_DeleteIncrementsMatchTotal ==
    \A p \in Callers :
        (IsBatch(proc[p]) /\ DeleteSucceeded(proc[p]))
        => LET n == Len(Items(proc[p].del)) IN
           /\ n >= 1
           /\ ArgOf(proc[p].trace[1]).deleteTotal = Some(n)
           /\ Cardinality(IndicesOf(proc[p], {"incrementDelete"})) = n

\* the last response the caller received, to this call, was a failure
LastThrew(r, call) ==
    /\ r.trace # <<>>
    /\ IsResponse(r.trace[Len(r.trace)], call)
    /\ ~RespOk(r.trace[Len(r.trace)])

\* C38: a failure of the user-identity lookup or of the site lookup (other
\* than not-found) at the start of getPublishStatus is not answered by
\* failing open: getPublishStatus rejects with that error, returns no
\* classification and has made no diff call.
C38_LookupFailureRejects ==
    \A p \in Callers :
        \A call \in {"getUserInfo", "getSiteByName"} :
            (proc[p].op = "getPublishStatus" /\ Threw(proc[p], call))
            => /\ proc[p].pc = "done"
               /\ Kind(proc[p]) = "error"
               /\ Val(proc[p]) = RemoteError(call)
               /\ LastThrew(proc[p], call)
               /\ ~Has(proc[p], "syncFiles")

C38_Witness ==
    \E p \in Callers :
        /\ proc[p].op = "getPublishStatus"
        /\ siteId # Null
        /\ LastThrew(proc[p], "getSiteByName")
        /\ Kind(proc[p]) = "error"
        /\ Val(proc[p]) = RemoteError("getSiteByName")

\* the step in which the site lookup of getPublishStatus finds no site
StatusFindsNoSite(p) ==
    /\ proc[p].op = "getPublishStatus"
    /\ proc[p].pc = "getSiteByName"
    /\ proc'[p].pc = "done"
    /\ IsNotFound(proc'[p].trace[Len(proc'[p].trace)])

\* C39: the cached site id does not outlive the site: when the lookup of
\* getPublishStatus finds no site the cached site id is null afterwards, so
\* that the next publishBatch resolves or creates the site.
C39_AbsentSiteClearsCache ==
    [][\A p \in Callers : StatusFindsNoSite(p) => siteId' = Null]_vars

====
